---------------------------- MODULE Spec2Model ----------------------------
(***************************************************************************)
(* Model of lib/onvif-device.js: the OnvifDevice constructor (property     *)
(* projection, action registration, snapshot poller) and performAction.    *)
(*                                                                         *)
(* JavaScript values are records tagged with their type.  Strings that the *)
(* code takes apart or builds (numeric profile fields, the resolution, the *)
(* base64 text) are sequences of one-character strings; strings it only    *)
(* passes along are TLA+ strings.  Speeds are in tenths (10 is 1.0).       *)
(***************************************************************************)
EXTENDS Integers, Sequences, FiniteSets, TLC

Null == [t |-> "null"]
Undefined == [t |-> "undefined"]
NaN == [t |-> "NaN"]
Str(s) == [t |-> "string", v |-> s]
Num(n) == [t |-> "number", v |-> n]

(* Bounds of the model. *)
MaxTicks == 2
MaxActions == 1

(***************************************************************************)
(* parseInt(s, 10): the longest prefix of decimal digits, NaN when empty.  *)
(***************************************************************************)
Digits == <<"0", "1", "2", "3", "4", "5", "6", "7", "8", "9">>

IsDigit(c) == \E d \in 1..10 : Digits[d] = c

DigitVal(c) == (CHOOSE d \in 1..10 : Digits[d] = c) - 1

RECURSIVE ParseDigits(_, _, _)
ParseDigits(s, i, acc) ==
    IF i > Len(s) \/ ~IsDigit(s[i])
    THEN acc
    ELSE ParseDigits(s, i + 1, acc * 10 + DigitVal(s[i]))

ParseInt(s) ==
    IF Len(s) = 0 \/ ~IsDigit(s[1]) THEN NaN ELSE Num(ParseDigits(s, 1, 0))

(***************************************************************************)
(* Buffer.toString('base64'): three bytes to four characters, '=' padding. *)
(***************************************************************************)
Alphabet ==
    << "A", "B", "C", "D", "E", "F", "G", "H", "I", "J", "K", "L", "M",
       "N", "O", "P", "Q", "R", "S", "T", "U", "V", "W", "X", "Y", "Z",
       "a", "b", "c", "d", "e", "f", "g", "h", "i", "j", "k", "l", "m",
       "n", "o", "p", "q", "r", "s", "t", "u", "v", "w", "x", "y", "z",
       "0", "1", "2", "3", "4", "5", "6", "7", "8", "9", "+", "/" >>

Sextet(n, k) == Alphabet[((n \div (64 ^ (3 - k))) % 64) + 1]

RECURSIVE Base64(_)
Base64(bytes) ==
    IF Len(bytes) = 0 THEN <<>>
    ELSE IF Len(bytes) = 1
    THEN LET n == bytes[1] * 65536
         IN  <<Sextet(n, 0), Sextet(n, 1), "=", "=">>
    ELSE IF Len(bytes) = 2
    THEN LET n == bytes[1] * 65536 + bytes[2] * 256
         IN  <<Sextet(n, 0), Sextet(n, 1), Sextet(n, 2), "=">>
    ELSE LET n == bytes[1] * 65536 + bytes[2] * 256 + bytes[3]
         IN  <<Sextet(n, 0), Sextet(n, 1), Sextet(n, 2), Sextet(n, 3)>>
             \o Base64(SubSeq(bytes, 4, Len(bytes)))

(***************************************************************************)
(* The camera client's answers.                                            *)
(***************************************************************************)
VideoH264 ==
    [ Encoding |-> "H264",
      Resolution |-> [Width |-> <<"1", "9", "2", "0">>,
                      Height |-> <<"1", "0", "8", "0">>],
      RateControl |-> [BitrateLimit |-> <<"4", "0", "9", "6">>,
                       FrameRateLimit |-> <<"3", "0">>],
      Quality |-> <<"5", ".", "0">> ]

VideoOdd ==
    [ Encoding |-> "JPEG",
      Resolution |-> [Width |-> <<"6", "4", "0">>,
                      Height |-> <<"4", "8", "0">>],
      RateControl |-> [BitrateLimit |-> <<>>,
                       FrameRateLimit |-> <<"1", "5", "f">>],
      Quality |-> <<"h", "i">> ]

AudioG711 ==
    [ Encoding |-> "G711", Bitrate |-> <<"6", "4">>, SampleRate |-> <<"8">> ]

Profiles ==
    { [ StreamUri |-> [Uri |-> "rtsp://camera/1"],
        VideoEncoderConfiguration |-> VideoH264,
        AudioEncoderConfiguration |-> Null ],
      [ StreamUri |-> [Uri |-> "rtsp://camera/2"],
        VideoEncoderConfiguration |-> VideoOdd,
        AudioEncoderConfiguration |-> AudioG711 ] }

SnapshotResults ==
    { [ mimeType |-> "image/jpeg", image |-> <<77>> ],
      [ mimeType |-> "image/jpeg", image |-> <<77, 97>> ],
      [ mimeType |-> "image/png", image |-> <<77, 97>> ],
      [ mimeType |-> "image/png", image |-> <<77, 97, 110>> ] }

ActionNames == {"move", "stop", "zoom"}

MoveInput(x, y, z, timeout) ==
    [ speedX |-> x, speedY |-> y, speedZ |-> z, timeout |-> timeout ]

MoveInputs ==
    { MoveInput(5, -5, 0, Num(3)),
      MoveInput(10, -10, 0, Undefined),
      MoveInput(0, 5, -5, Null),
      MoveInput(15, 0, -11, Num(-1)) }

VARIABLES camera, properties, actions, notified, ticks, fetches, completed,
          requests

vars == << camera, properties, actions, notified, ticks, fetches, completed,
           requests >>

(***************************************************************************)
(* constructor: property projection.                                       *)
(***************************************************************************)
Truthy(x) == x # Null /\ x # Undefined

VideoProperties(profile) ==
    LET video == profile.VideoEncoderConfiguration
    IN  [ streamUrl |-> Str(profile.StreamUri.Uri),
          videoEncoding |-> Str(video.Encoding),
          videoResolution |->
              Str(video.Resolution.Width \o <<"x">> \o video.Resolution.Height),
          videoBitRate |-> ParseInt(video.RateControl.BitrateLimit),
          videoFrameRate |-> ParseInt(video.RateControl.FrameRateLimit),
          videoQuality |-> ParseInt(video.Quality) ]

SnapshotProperties == [ snapshotMimeType |-> Null, snapshot |-> Null ]

(* Variant: the bit rate and sample rate are registered unconditionally. *)
AudioPropertiesPartial(profile) ==
    LET audio == profile.AudioEncoderConfiguration
    IN  IF Truthy(audio)
        THEN [ audioEncoding |-> Str(audio.Encoding),
               audioBitRate |-> ParseInt(audio.Bitrate),
               audioSampleRate |-> ParseInt(audio.SampleRate) ]
        ELSE [ audioBitRate |-> NaN, audioSampleRate |-> NaN ]

AudioProperties(profile) ==
    LET audio == profile.AudioEncoderConfiguration
    IN  IF Truthy(audio)
        THEN [ audioEncoding |-> Str(audio.Encoding),
               audioBitRate |-> ParseInt(audio.Bitrate),
               audioSampleRate |-> ParseInt(audio.SampleRate) ]
        ELSE << >>

AudioNames == {"audioEncoding", "audioBitRate", "audioSampleRate"}

(***************************************************************************)
(* constructor: action registration.  The 'move' input schema, as a        *)
(* predicate on an input object.                                           *)
(***************************************************************************)
RegisteredActions(cam) == IF cam.ptz THEN {"move", "stop"} ELSE {}

SpeedInRange(speed) == speed >= -10 /\ speed <= 10

MoveSchema(input) ==
    /\ SpeedInRange(input.speedX)
    /\ SpeedInRange(input.speedY)
    /\ SpeedInRange(input.speedZ)
    /\ input.timeout # Undefined =>
           (input.timeout.t = "number" /\ input.timeout.v >= 0)

Init ==
    /\ camera \in [profile : Profiles, ptz : BOOLEAN]
    /\ properties = VideoProperties(camera.profile) @@ SnapshotProperties
                        @@ AudioProperties(camera.profile)
    /\ actions = RegisteredActions(camera)
    /\ notified = [ snapshotMimeType |-> 0, snapshot |-> 0 ]
    /\ ticks = 0
    /\ fetches = {}
    /\ completed = << >>
    /\ requests = << >>

(***************************************************************************)
(* The snapshot poller: the setInterval callback and its promise handlers. *)
(***************************************************************************)
(* Variant: a tick is skipped while a fetch is in flight. *)
IssueFetchCoalesced(inflight, id) ==
    IF inflight = {} THEN {id} ELSE inflight

IssueFetch(inflight, id) == inflight \cup {id}

Tick ==
    /\ ticks < MaxTicks
    /\ ticks' = ticks + 1
    /\ fetches' = IssueFetch(fetches, ticks + 1)
    /\ UNCHANGED << camera, properties, actions, notified, completed, requests >>

(* snapshot(): {mimeType: res.mimeType, buffer: res.image} *)
Snapshot(res) == [ mimeType |-> res.mimeType, buffer |-> res.image ]

(* Variant: the MIME type is rewritten on every fetch. *)
MimeUnsetAlways(mime) == TRUE

MimeUnset(mime) == mime = Null

(* Variant: an unchanged image is neither stored nor notified. *)
SnapshotHandlerDedup(props, notes, snap) ==
    LET setMime == props.snapshotMimeType = Null
        props1 == IF setMime
                  THEN [props EXCEPT !.snapshotMimeType = Str(snap.mimeType)]
                  ELSE props
        notes1 == IF setMime
                  THEN [notes EXCEPT !.snapshotMimeType = @ + 1]
                  ELSE notes
        same == props.snapshot = Str(Base64(snap.buffer))
    IN  [ properties |-> [props1 EXCEPT !.snapshot = Str(Base64(snap.buffer))],
          notified |-> IF same THEN notes1
                       ELSE [notes1 EXCEPT !.snapshot = @ + 1] ]

(* Variant: the MIME type is stored under videoEncoding. *)
SnapshotHandlerWrongProperty(props, notes, snap) ==
    [ properties |-> [props EXCEPT !.videoEncoding = Str(snap.mimeType),
                                   !.snapshot = Str(Base64(snap.buffer))],
      notified |-> [notes EXCEPT !.snapshot = @ + 1] ]

SnapshotHandler(props, notes, snap) ==
    LET setMime == MimeUnset(props.snapshotMimeType)
        props1 == IF setMime
                  THEN [props EXCEPT !.snapshotMimeType = Str(snap.mimeType)]
                  ELSE props
        notes1 == IF setMime
                  THEN [notes EXCEPT !.snapshotMimeType = @ + 1]
                  ELSE notes
    IN  [ properties |-> [props1 EXCEPT !.snapshot = Str(Base64(snap.buffer))],
          notified |-> [notes1 EXCEPT !.snapshot = @ + 1] ]

FetchSucceeds ==
    \E id \in fetches, res \in SnapshotResults :
        LET out == SnapshotHandler(properties, notified, Snapshot(res))
        IN  /\ fetches' = fetches \ {id}
            /\ properties' = out.properties
            /\ notified' = out.notified
            /\ completed' = Append(completed,
                                   [ id |-> id, ok |-> TRUE,
                                     mimeType |-> res.mimeType,
                                     image |-> res.image ])
            /\ UNCHANGED << camera, actions, ticks, requests >>

(* Variant: a failed fetch clears the cached snapshot. *)
ErrorHandlerClears(props, notes) ==
    [ properties |-> [props EXCEPT !.snapshot = Null],
      notified |-> [notes EXCEPT !.snapshot = @ + 1] ]

ErrorHandler(props, notes) == [ properties |-> props, notified |-> notes ]

FetchFails ==
    \E id \in fetches :
        LET out == ErrorHandler(properties, notified)
        IN  /\ fetches' = fetches \ {id}
            /\ properties' = out.properties
            /\ notified' = out.notified
            /\ completed' = Append(completed, [ id |-> id, ok |-> FALSE ])
            /\ UNCHANGED << camera, actions, ticks, requests >>

(***************************************************************************)
(* performAction.  An invocation records the action object (name, input,   *)
(* status), the calls made on it and on the camera in order (events), the  *)
(* arguments of the camera call, the state of the camera's promise (ptz)   *)
(* and the state of the promise performAction returned.                    *)
(***************************************************************************)
NewAction(name, input) ==
    [ name |-> name, input |-> input, status |-> "pending", events |-> << >>,
      call |-> Null, ptz |-> "none", promise |-> "none" ]

Start(a) ==
    [a EXCEPT !.status = "running", !.events = Append(@, "start")]

Finish(a) ==
    [a EXCEPT !.status = "completed", !.events = Append(@, "finish")]

MarkError(a) ==
    [a EXCEPT !.status = "error", !.events = Append(@, "error")]

MoveVelocity(input) ==
    [ x |-> input.speedX, y |-> input.speedY, z |-> input.speedZ ]

MoveTimeout(input) ==
    IF input.timeout.t = "number" THEN input.timeout ELSE Null

CallPtz(a, cam, method, args) ==
    IF cam.ptz
    THEN [a EXCEPT !.events = Append(@, method), !.call = args,
                   !.ptz = "pending", !.promise = "pending"]
    ELSE [a EXCEPT !.promise = "threw"]

(* Variant: no default case, an unknown name falls into 'stop'. *)
DispatchNoDefault(a, cam) ==
    CASE a.name = "move" ->
           CallPtz(Start(a), cam, "continuousMove",
                   [ velocity |-> MoveVelocity(a.input),
                     timeout |-> MoveTimeout(a.input) ])
      [] OTHER ->
           CallPtz(Start(a), cam, "stop", Undefined)

Dispatch(a, cam) ==
    CASE a.name = "move" ->
           CallPtz(Start(a), cam, "continuousMove",
                   [ velocity |-> MoveVelocity(a.input),
                     timeout |-> MoveTimeout(a.input) ])
      [] a.name = "stop" ->
           CallPtz(Start(a), cam, "stop", Undefined)
      [] OTHER ->
           [MarkError(a) EXCEPT !.promise = "fulfilled"]

InputsOf(name) == IF name = "move" THEN MoveInputs ELSE {Undefined}

PerformAction ==
    \E name \in ActionNames :
        \E input \in InputsOf(name) :
            /\ Len(requests) < MaxActions
            /\ requests' = Append(requests,
                                  Dispatch(NewAction(name, input), camera))
            /\ UNCHANGED << camera, properties, actions, notified, ticks,
                            fetches, completed >>

(* Variant: the error handler also runs after finish. *)
OnPtzResolvedThenError(a) ==
    [MarkError(Finish(a)) EXCEPT !.ptz = "resolved", !.promise = "fulfilled"]

OnPtzResolved(a) == [Finish(a) EXCEPT !.ptz = "resolved", !.promise = "fulfilled"]

(* Variant: no catch, the rejection passes to the caller. *)
OnPtzRejectedUncaught(a) ==
    [a EXCEPT !.ptz = "rejected", !.promise = "rejected"]

OnPtzRejected(a) == [MarkError(a) EXCEPT !.ptz = "rejected", !.promise = "fulfilled"]

PtzResolves ==
    \E i \in DOMAIN requests :
        /\ requests[i].ptz = "pending"
        /\ requests' = [requests EXCEPT ![i] = OnPtzResolved(@)]
        /\ UNCHANGED << camera, properties, actions, notified, ticks,
                        fetches, completed >>

PtzRejects ==
    \E i \in DOMAIN requests :
        /\ requests[i].ptz = "pending"
        /\ requests' = [requests EXCEPT ![i] = OnPtzRejected(@)]
        /\ UNCHANGED << camera, properties, actions, notified, ticks,
                        fetches, completed >>

Next ==
    \/ Tick
    \/ FetchSucceeds
    \/ FetchFails
    \/ PerformAction
    \/ PtzResolves
    \/ PtzRejects

Spec == Init /\ [][Next]_vars

TypeOK ==
    /\ ticks \in 0..MaxTicks
    /\ fetches \subseteq 1..ticks
    /\ Len(completed) + Cardinality(fetches) = ticks
    /\ Len(requests) <= MaxActions

(***************************************************************************)
(* Properties.                                                             *)
(***************************************************************************)
Successes == SelectSeq(completed, LAMBDA e : e.ok)

IndexOf(c) == (CHOOSE k \in 1..64 : Alphabet[k] = c) - 1

SextetVal(c) == IF c = "=" THEN 0 ELSE IndexOf(c)

RECURSIVE Base64Decode(_)
Base64Decode(chars) ==
    IF Len(chars) < 4 THEN << >>
    ELSE LET n == SextetVal(chars[1]) * 262144 + SextetVal(chars[2]) * 4096
                    + SextetVal(chars[3]) * 64 + SextetVal(chars[4])
             three == << n \div 65536, (n \div 256) % 256, n % 256 >>
             group == IF chars[3] = "=" THEN SubSeq(three, 1, 1)
                      ELSE IF chars[4] = "=" THEN SubSeq(three, 1, 2)
                      ELSE three
         IN  group \o Base64Decode(SubSeq(chars, 5, Len(chars)))

(* C1: snapshotMimeType is assigned at most once: it is null until a fetch
   succeeds and from then on holds the MIME type of the first successful
   fetch, with exactly one notification, whatever later fetches report. *)
C1_MimeSetOnce ==
    IF Len(Successes) = 0
    THEN /\ properties.snapshotMimeType = Null
         /\ notified.snapshotMimeType = 0
    ELSE /\ properties.snapshotMimeType = Str(Successes[1].mimeType)
         /\ notified.snapshotMimeType = 1

C1_Witness ==
    /\ Len(Successes) >= 2
    /\ Successes[2].mimeType # Successes[1].mimeType
    /\ properties.snapshotMimeType = Str(Successes[1].mimeType)

SuccessStep ==
    /\ Len(completed') = Len(completed) + 1
    /\ completed'[Len(completed')].ok

FailStep ==
    /\ Len(completed') = Len(completed) + 1
    /\ ~completed'[Len(completed')].ok

(* C2: every successful fetch overwrites snapshot with the base64 text of the
   fetched image (decoding it gives the image back) and emits exactly one
   snapshot notification, also when the image equals the cached one. *)
C2_SnapshotOverwritten ==
    [][SuccessStep =>
          /\ properties'.snapshot.t = "string"
          /\ Base64Decode(properties'.snapshot.v)
                 = completed'[Len(completed')].image
          /\ notified'.snapshot = notified.snapshot + 1]_vars

C2_Witness ==
    /\ Len(Successes) >= 2
    /\ Successes[1].image = Successes[2].image
    /\ notified.snapshot = 2
    /\ properties.snapshot = Str(<<"T", "W", "E", "=">>)

(* C3: an action whose name is neither 'move' nor 'stop' gets status error
   and one notification; start, finish and the camera are never called, and
   the returned promise is fulfilled. *)
C3_UnknownActionErrors ==
    \A i \in DOMAIN requests :
        requests[i].name \notin {"move", "stop"} =>
            /\ requests[i].status = "error"
            /\ requests[i].events = <<"error">>
            /\ requests[i].call = Null
            /\ requests[i].ptz = "none"
            /\ requests[i].promise = "fulfilled"

C3_Witness ==
    \E i \in DOMAIN requests :
        /\ requests[i].name = "zoom"
        /\ requests[i].status = "error"
        /\ camera.ptz

PtzMethod(name) == IF name = "move" THEN "continuousMove" ELSE "stop"

(* C4: when the camera call of a 'move' or 'stop' rejects, the action is in
   the error state with exactly one error notification, the camera was
   called once, finish was not called and the returned promise is fulfilled,
   not rejected. *)
C4_RejectedCallFails ==
    \A i \in DOMAIN requests :
        requests[i].ptz = "rejected" =>
            /\ requests[i].status = "error"
            /\ requests[i].events
                   = <<"start", PtzMethod(requests[i].name), "error">>
            /\ requests[i].promise = "fulfilled"

C4_Witness ==
    \E i \in DOMAIN requests :
        /\ requests[i].name = "move"
        /\ requests[i].ptz = "rejected"
        /\ requests[i].status = "error"

Terminal(a) == a.status \in {"completed", "error"}

C5_StateMachine ==
    \A i \in DOMAIN requests :
        LET a == requests[i]
            m == PtzMethod(a.name)
        IN  a.name \in {"move", "stop"} =>
              \/ a.status = "running" /\ a.events = <<"start">>
                     /\ a.ptz = "none"
              \/ a.status = "running" /\ a.events = <<"start", m>>
                     /\ a.ptz = "pending"
              \/ a.status = "completed" /\ a.events = <<"start", m, "finish">>
                     /\ a.ptz = "resolved"
              \/ a.status = "error" /\ a.events = <<"start", m, "error">>
                     /\ a.ptz = "rejected"

C5_TerminalStable ==
    \A i \in DOMAIN requests :
        Terminal(requests[i]) => requests'[i] = requests[i]

(* C5: a 'move' or 'stop' invocation goes pending -> running -> completed or
   error: it is started before the camera is called, finish or error happens
   only once the camera call settled, and never both; an invocation in a
   terminal state never changes again; one whose call resolved is completed
   with no error notification. *)
C5_OneShot == []C5_StateMachine /\ [][C5_TerminalStable]_vars

C5_Witness ==
    \E i \in DOMAIN requests :
        /\ requests[i].name = "move"
        /\ requests[i].input = MoveInput(5, -5, 0, Num(3))
        /\ requests[i].status = "completed"
        /\ requests[i].events = <<"start", "continuousMove", "finish">>

(* C6: a fetch that fails changes no property value and emits no
   notification; the timer is untouched. *)
C6_FailureChangesNothing ==
    [][FailStep =>
          /\ properties' = properties
          /\ notified' = notified
          /\ ticks' = ticks]_vars

C6_Witness ==
    /\ Len(completed) >= 2
    /\ completed[1].ok
    /\ ~completed[Len(completed)].ok
    /\ properties.snapshot = Str(Base64(completed[1].image))
    /\ properties.snapshotMimeType = Str(completed[1].mimeType)

C7_StaticFixed ==
    /\ DOMAIN properties
           = DOMAIN VideoProperties(camera.profile)
               \cup DOMAIN SnapshotProperties
               \cup DOMAIN AudioProperties(camera.profile)
    /\ \A n \in DOMAIN VideoProperties(camera.profile) :
           properties[n] = VideoProperties(camera.profile)[n]
    /\ \A n \in DOMAIN AudioProperties(camera.profile) :
           properties[n] = AudioProperties(camera.profile)[n]

C7_ActionsKeepProperties ==
    requests' # requests => properties' = properties /\ notified' = notified

C7_OnlyPollerWrites ==
    \A n \in DOMAIN properties :
        properties'[n] # properties[n] =>
            n \in {"snapshotMimeType", "snapshot"} /\ SuccessStep

(* C7: the static properties keep the values the constructor gave them, only
   a completing snapshot fetch changes snapshotMimeType or snapshot, and no
   step of performAction changes any property. *)
C7_Frame ==
    /\ []C7_StaticFixed
    /\ [][C7_ActionsKeepProperties /\ C7_OnlyPollerWrites]_vars

C7_Witness ==
    /\ \E i \in DOMAIN requests : requests[i].status = "completed"
    /\ properties.snapshot # Null
    /\ properties.videoQuality = Num(5)
    /\ properties.videoResolution
           = Str(<<"1", "9", "2", "0", "x", "1", "0", "8", "0">>)

(* C8: ptz.continuousMove is never called with a velocity component outside
   [-1.0, 1.0] or with a negative timeout, and gets a null timeout when the
   input's timeout is absent or not a number. *)
C8_MoveInputChecked ==
    \A i \in DOMAIN requests :
        (requests[i].name = "move" /\ requests[i].call # Null) =>
            LET call == requests[i].call
            IN  /\ SpeedInRange(call.velocity.x)
                /\ SpeedInRange(call.velocity.y)
                /\ SpeedInRange(call.velocity.z)
                /\ call.timeout # Null => call.timeout.v >= 0
                /\ requests[i].input.timeout.t # "number"
                       => call.timeout = Null

(* C9: audioEncoding, audioBitRate and audioSampleRate are all registered
   when the profile has an audio encoder configuration, and none of them is
   otherwise. *)
C9_AudioAllOrNone ==
    IF Truthy(camera.profile.AudioEncoderConfiguration)
    THEN AudioNames \subseteq DOMAIN properties
    ELSE AudioNames \cap DOMAIN properties = {}

C9_Witness ==
    /\ Truthy(camera.profile.AudioEncoderConfiguration)
    /\ properties.audioBitRate = Num(64)
    /\ Len(completed) > 0
    /\ Len(requests) > 0

C10_LastCompletedWins ==
    properties.snapshot =
        IF Len(Successes) = 0 THEN Null
        ELSE Str(Base64(Successes[Len(Successes)].image))

C10_TickIssuesFetch ==
    ticks' # ticks =>
        /\ ticks' = ticks + 1
        /\ ticks' \notin fetches
        /\ fetches' = fetches \cup {ticks'}

(* C10: every tick issues a new fetch whatever is in flight, and snapshot is
   the base64 image of the successful fetch that completed last, null when
   none has. *)
C10_Interleaving == []C10_LastCompletedWins /\ [][C10_TickIssuesFetch]_vars

C10_Witness ==
    /\ Len(completed) = 2
    /\ completed[1].ok /\ completed[2].ok
    /\ completed[1].id > completed[2].id
    /\ completed[1].image # completed[2].image
    /\ properties.snapshot = Str(Base64(completed[2].image))
    /\ Len(requests) > 0

=============================================================================
